---------------------------- MODULE Spec2Model ----------------------------
(***************************************************************************)
(* wgpu-hello-triangle (src/src/main.rs): the event bridge (EventHandler,  *)
(* on the event-loop thread), the mpsc hand-off queue, and the State task  *)
(* (State::run with Gfx::new and the per-frame render) as a state machine. *)
(*                                                                         *)
(* Spec is the composed program as main wires it.  SpecRun is State::run   *)
(* alone, fed a pre-filled queue holding an arbitrary event sequence (the  *)
(* unit under test of the claims that quantify over every event sequence); *)
(* FairSpecRun adds the scheduling of its thread.                          *)
(***************************************************************************)
EXTENDS Naturals, Sequences, FiniteSets

VARIABLES
    queue,          \* the mpsc channel's buffered events, oldest first
    senderAlive,    \* EventHandler.event_sender (tx) has not been dropped
    receiverAlive,  \* State.event_receiver (rx) has not been dropped
    window,         \* State.window: 0 is None, w > 0 is Some(window w)
    gfx,            \* State.gfx: NoGfx is None, else the context built
    pc,             \* where State's task stands
    gfxStep,        \* the step of Gfx::new in progress (0 outside Gfx::new)
    err,            \* the error State::run ended with ("none" so far)
    flog,           \* the frame steps performed so far, in order
    consumed,       \* every event recv() has returned so far, in order
    produced,       \* every event send() has enqueued so far, in order
    gfxBuilt,       \* how many times Gfx::new has returned Ok
    main,           \* where the event-loop thread stands
    mainErr,        \* what the event-loop thread panicked on
    windows,        \* how many windows create_window has returned
    redraws,        \* how many redraw-requested callbacks were delivered
    formats,        \* Gfx::new's swapchain_capabilities.formats (<<>> unset)
    swapFormat,     \* Gfx::new's swapchain_format ("none" unset)
    pipeline,       \* the colour target format of the pipeline built
    gfxLog          \* the steps of Gfx::new done so far, in order

vars == <<queue, senderAlive, receiverAlive, window, gfx, pc, gfxStep, err,
          flog, consumed, produced, gfxBuilt, main, mainErr, windows, redraws,
          formats, swapFormat, pipeline, gfxLog>>

gfxLocals == <<formats, swapFormat, pipeline, gfxLog>>
taskVars == <<window, gfx, pc, gfxStep, err, flog, consumed, gfxBuilt,
              gfxLocals>>
mainVars == <<main, mainErr, windows, redraws>>

-----------------------------------------------------------------------------
(* Bounds of the model *)

\* resumed callbacks delivered at most (each creates a window)
MaxResumed == 2
\* redraw-requested callbacks delivered at most
MaxRedraws == 2
\* length of the event sequences State::run is fed under SpecRun
MaxLen == 4
\* window handles an event sequence of SpecRun may carry
MaxWin == 2
\* length of the list of formats a surface reports at most
MaxFormats == 2

-----------------------------------------------------------------------------
(* enum Event *)

WindowCreated(w) == [kind |-> "WindowCreated", win |-> w]
WindowClose == [kind |-> "WindowClose", win |-> 0]
RedrawRequested == [kind |-> "RedrawRequested", win |-> 0]

NoGfx == [win |-> 0, id |-> 0]
NoPanic == [what |-> "none", ev |-> "none"]

\* wgpu::TextureFormat values a surface may report
Formats == {"Bgra8UnormSrgb", "Rgba8UnormSrgb"}

RECURSIVE SeqsUpTo(_, _)
SeqsUpTo(S, n) ==
    IF n = 0
    THEN {<<>>}
    ELSE LET shorter == SeqsUpTo(S, n - 1)
         IN  shorter \cup {Append(s, x) : s \in shorter, x \in S}

\* The lists swapchain_capabilities.formats may be, the empty one included
FormatLists == SeqsUpTo(Formats, MaxFormats)

\* The ordered steps of Gfx::new
GfxSteps ==
    << "create_surface", "request_adapter", "request_device",
       "create_shader_module", "create_pipeline_layout", "formats[0]",
       "create_render_pipeline", "configure" >>

\* How a step of Gfx::new fails, "none" when it cannot.  Steps 1, 2, 3 and 8
\* hand an Err to "?" (8 when get_default_config gives None).  Step 6 indexes
\* the reported list, which panics when the list is empty.  Steps 4, 5 and 7
\* return no Result and work on fixed input (the embedded shader with its
\* entry points vs_main and fs_main, empty layouts).
GfxStepError(i) ==
    CASE i = 1 -> "create_surface failed"
      [] i = 2 -> "no adapter found!"
      [] i = 3 -> "request_device failed"
      [] i = 4 -> "none"
      [] i = 5 -> "none"
      [] i = 6 -> "panic: index out of bounds"
      [] i = 7 -> "none"
      [] i = 8 -> "failed to create config!"

\* The failure of Gfx::new that is a panic inside the step, not an Err the
\* step hands to "?": formats[0] on a list with no element
GfxPanics == {"panic: index out of bounds"}

\* The ordered steps of one frame
FrameSteps == << "acquire", "record", "submit", "present" >>

AcquireError == "get_current_texture failed"

-----------------------------------------------------------------------------
(* State: the background task *)

\* A handler of State::run ends the run with error e
Fail(e) == pc' = "Failed" /\ err' = e

\* State::new: window and gfx start as None
StateNew ==
    /\ pc = "Uninit"
    /\ pc' = "AwaitingFirstWindow"
    /\ window' = 0
    /\ gfx' = NoGfx
    /\ UNCHANGED <<queue, senderAlive, receiverAlive, gfxStep, err, flog,
                   consumed, produced, gfxBuilt, gfxLocals, mainVars>>

\* FirstEvent with the error arm replaced by a catch-all that goes on
FirstEvent_AcceptsAny(e) == window' = e.win /\ pc' = "GfxNew" /\ err' = err

\* The match on the first event received
FirstEvent(e) ==
    IF e.kind = "WindowCreated"
    THEN window' = e.win /\ pc' = "GfxNew" /\ err' = err
    ELSE window' = window /\ Fail("unexpected event")

\* State::run receives its first event
RecvFirst ==
    /\ pc = "AwaitingFirstWindow"
    /\ receiverAlive
    /\ queue # <<>>
    /\ queue' = Tail(queue)
    /\ consumed' = Append(consumed, Head(queue))
    /\ FirstEvent(Head(queue))
    /\ UNCHANGED <<senderAlive, receiverAlive, gfx, gfxStep, flog, produced,
                   gfxBuilt, gfxLocals, mainVars>>

\* self.window.clone().unwrap(), and Gfx::new is entered
GfxNewCall ==
    /\ pc = "GfxNew"
    /\ gfxStep = 0
    /\ IF window = 0
       THEN Fail("panic: unwrap on None") /\ gfxStep' = gfxStep
       ELSE pc' = pc /\ err' = err /\ gfxStep' = 1
    /\ UNCHANGED <<queue, senderAlive, receiverAlive, window, gfx, flog,
                   consumed, produced, gfxBuilt, gfxLocals, mainVars>>

\* GfxAssign with the context built but not stored in self.gfx
GfxAssign_NotStored ==
    /\ gfxBuilt' = gfxBuilt + 1
    /\ gfx' = gfx
    /\ gfxStep' = 0
    /\ pc' = "Running"
    /\ err' = err

\* Gfx::new returned Ok and self.gfx is assigned
GfxAssign ==
    /\ gfxBuilt' = gfxBuilt + 1
    /\ gfx' = [win |-> window, id |-> gfxBuilt + 1]
    /\ gfxStep' = 0
    /\ pc' = "Running"
    /\ err' = err

\* ChooseFormat taking the last format listed
ChooseFormat_Last(fs) == fs[Len(fs)]

\* The presentation format picked from the list the surface reports
ChooseFormat(fs) == fs[1]

\* What a step of Gfx::new that succeeds leaves behind: the list reported by
\* get_capabilities and the format picked from it (a list with no element
\* makes the step fail), the colour target of the pipeline, and on return
\* the locals are gone
GfxStepEffect(i) ==
    /\ gfxLog' = Append(gfxLog, GfxSteps[i])
    /\ CASE i = 6 -> \E fs \in FormatLists \ {<<>>} :
                        /\ formats' = fs
                        /\ swapFormat' = ChooseFormat(fs)
                        /\ pipeline' = pipeline
         [] i = 7 -> pipeline' = swapFormat /\ UNCHANGED <<formats, swapFormat>>
         [] i = 8 -> formats' = <<>> /\ swapFormat' = "none" /\ pipeline' = pipeline
         [] OTHER -> UNCHANGED <<formats, swapFormat, pipeline>>

\* One step of Gfx::new succeeds
GfxNewStepOk ==
    /\ pc = "GfxNew"
    /\ gfxStep \in 1..Len(GfxSteps)
    /\ GfxStepEffect(gfxStep)
    /\ IF gfxStep < Len(GfxSteps)
       THEN gfxStep' = gfxStep + 1 /\ UNCHANGED <<gfx, gfxBuilt, pc, err>>
       ELSE GfxAssign
    /\ UNCHANGED <<queue, senderAlive, receiverAlive, window, flog, consumed,
                   produced, mainVars>>

\* One step of Gfx::new fails: the error (or panic) leaves State::run
GfxNewStepFails ==
    /\ pc = "GfxNew"
    /\ gfxStep \in 1..Len(GfxSteps)
    /\ GfxStepError(gfxStep) # "none"
    /\ Fail(GfxStepError(gfxStep))
    /\ UNCHANGED <<queue, senderAlive, receiverAlive, window, gfx, gfxStep,
                   flog, consumed, produced, gfxBuilt, gfxLocals, mainVars>>

\* OnRedrawRequested with the redraw arm left empty
OnRedrawRequested_Skips == pc' = pc /\ err' = err

\* Event::RedrawRequested in the loop: self.gfx.as_ref().unwrap()
OnRedrawRequested ==
    IF gfx = NoGfx
    THEN Fail("panic: unwrap on None")
    ELSE pc' = "Acquire" /\ err' = err

\* OnWindowClose with the break missing: the loop goes on
OnWindowClose_NoBreak == pc' = pc /\ err' = err

\* Event::WindowClose in the loop: break
OnWindowClose == pc' = "Closed" /\ err' = err

\* OnOtherEvent with a default arm that leaves the loop
OnOtherEvent_Breaks(e) == pc' = "Closed" /\ err' = err

\* Any other event in the loop: the default arm
OnOtherEvent(e) == pc' = pc /\ err' = err

\* The arms of the match in the loop
MatchRunning(e) ==
    CASE e.kind = "RedrawRequested" -> OnRedrawRequested
      [] e.kind = "WindowClose" -> OnWindowClose
      [] OTHER -> OnOtherEvent(e)

\* OnRunningEvent with WindowCreated falling into the redraw arm
OnRunningEvent_RendersOnAny(e) ==
    /\ IF e.kind = "WindowCreated" THEN OnRedrawRequested ELSE MatchRunning(e)
    /\ UNCHANGED <<window, gfx, gfxStep, flog, gfxBuilt, gfxLocals>>

\* OnRunningEvent with a WindowCreated arm that takes the new window and
\* builds its Gfx context again
OnRunningEvent_Recreates(e) ==
    IF e.kind = "WindowCreated"
    THEN /\ window' = e.win
         /\ pc' = "GfxNew"
         /\ err' = err
         /\ UNCHANGED <<gfx, gfxStep, flog, gfxBuilt, gfxLocals>>
    ELSE /\ MatchRunning(e)
         /\ UNCHANGED <<window, gfx, gfxStep, flog, gfxBuilt, gfxLocals>>

\* The match on an event received in the loop
OnRunningEvent(e) ==
    /\ MatchRunning(e)
    /\ UNCHANGED <<window, gfx, gfxStep, flog, gfxBuilt, gfxLocals>>

\* RecvRunning taking the newest buffered event instead of the oldest
RecvRunning_TakesNewest ==
    /\ pc = "Running"
    /\ receiverAlive
    /\ queue # <<>>
    /\ queue' = SubSeq(queue, 1, Len(queue) - 1)
    /\ consumed' = Append(consumed, queue[Len(queue)])
    /\ OnRunningEvent(queue[Len(queue)])
    /\ UNCHANGED <<senderAlive, receiverAlive, produced, mainVars>>

\* The loop of State::run receives an event
RecvRunning ==
    /\ pc = "Running"
    /\ receiverAlive
    /\ queue # <<>>
    /\ queue' = Tail(queue)
    /\ consumed' = Append(consumed, Head(queue))
    /\ OnRunningEvent(Head(queue))
    /\ UNCHANGED <<senderAlive, receiverAlive, produced, mainVars>>

\* recv() on an empty queue whose sender is gone returns Err
RecvDisconnected ==
    /\ pc \in {"AwaitingFirstWindow", "Running"}
    /\ receiverAlive
    /\ queue = <<>>
    /\ ~senderAlive
    /\ Fail("RecvError")
    /\ UNCHANGED <<queue, senderAlive, receiverAlive, window, gfx, gfxStep,
                   flog, consumed, produced, gfxBuilt, gfxLocals, mainVars>>

\* A step of the frame is done for the event being handled
DoFrameStep(step, next) ==
    /\ flog' = Append(flog, [ev |-> Len(consumed), step |-> step])
    /\ pc' = next
    /\ err' = err

\* AcquireFails with the error noted and the loop continued
AcquireFails_Continues == pc' = "Running" /\ err' = AcquireError /\ flog' = flog

\* get_current_texture()? fails
AcquireFails == Fail(AcquireError) /\ flog' = flog

\* gfx.surface.get_current_texture()?
FrameAcquire ==
    /\ pc = "Acquire"
    /\ \/ DoFrameStep("acquire", "Record")
       \/ AcquireFails
    /\ UNCHANGED <<queue, senderAlive, receiverAlive, window, gfx, gfxStep,
                   consumed, produced, gfxBuilt, gfxLocals, mainVars>>

\* The view, the encoder and the render pass (clear, set_pipeline, draw)
FrameRecord ==
    /\ pc = "Record"
    /\ DoFrameStep("record", "Submit")
    /\ UNCHANGED <<queue, senderAlive, receiverAlive, window, gfx, gfxStep,
                   consumed, produced, gfxBuilt, gfxLocals, mainVars>>

\* FrameSubmit going back to the loop with the frame never presented
FrameSubmit_NoPresent ==
    /\ pc = "Submit"
    /\ DoFrameStep("submit", "Running")
    /\ UNCHANGED <<queue, senderAlive, receiverAlive, window, gfx, gfxStep,
                   consumed, produced, gfxBuilt, gfxLocals, mainVars>>

\* gfx.queue.submit(Some(encoder.finish()))
FrameSubmit ==
    /\ pc = "Submit"
    /\ DoFrameStep("submit", "Present")
    /\ UNCHANGED <<queue, senderAlive, receiverAlive, window, gfx, gfxStep,
                   consumed, produced, gfxBuilt, gfxLocals, mainVars>>

\* frame.present(), and the loop receives again
FramePresent ==
    /\ pc = "Present"
    /\ DoFrameStep("present", "Running")
    /\ UNCHANGED <<queue, senderAlive, receiverAlive, window, gfx, gfxStep,
                   consumed, produced, gfxBuilt, gfxLocals, mainVars>>

\* The steps of State::new and State::run
RunStep ==
    \/ StateNew
    \/ RecvFirst
    \/ GfxNewCall
    \/ GfxNewStepOk
    \/ GfxNewStepFails
    \/ RecvRunning
    \/ RecvDisconnected
    \/ FrameAcquire
    \/ FrameRecord
    \/ FrameSubmit
    \/ FramePresent

-----------------------------------------------------------------------------
(* State::run alone, fed an arbitrary event sequence *)

Events == {WindowCreated(w) : w \in 1..MaxWin} \cup {WindowClose, RedrawRequested}

InitTask ==
    /\ window = 0
    /\ gfx = NoGfx
    /\ pc = "Uninit"
    /\ gfxStep = 0
    /\ err = "none"
    /\ flog = <<>>
    /\ consumed = <<>>
    /\ gfxBuilt = 0
    /\ formats = <<>>
    /\ swapFormat = "none"
    /\ pipeline = "none"
    /\ gfxLog = <<>>

\* The queue holds the whole sequence before run starts; the test's sender
\* is either kept or already dropped.  No event loop runs.
InitRun ==
    /\ InitTask
    /\ queue \in SeqsUpTo(Events, MaxLen)
    /\ produced = queue
    /\ senderAlive \in BOOLEAN
    /\ receiverAlive = TRUE
    /\ main = "None"
    /\ mainErr = NoPanic
    /\ windows = 0
    /\ redraws = 0

NextRun == RunStep

SpecRun == InitRun /\ [][NextRun]_vars

\* The task's thread is scheduled: State::run takes its next step whenever it
\* has one (a recv() on an empty queue with a live sender blocks)
FairSpecRun == SpecRun /\ WF_vars(NextRun)

-----------------------------------------------------------------------------
(* main and EventHandler: the event-loop thread *)

\* The closure main spawns ends (run returned Ok, or unwrap() panicked on
\* its Err): state is dropped, and with it the receiver and what it buffers
TaskEnd ==
    /\ pc \in {"Closed", "Failed"}
    /\ receiverAlive
    /\ receiverAlive' = FALSE
    /\ queue' = <<>>
    /\ UNCHANGED <<senderAlive, taskVars, produced, mainVars>>

\* Send with the result of send() discarded instead of unwrapped
Send_IgnoresError(e, next) ==
    /\ queue' = (IF receiverAlive THEN Append(queue, e) ELSE queue)
    /\ produced' = (IF receiverAlive THEN Append(produced, e) ELSE produced)
    /\ main' = next
    /\ mainErr' = mainErr
    /\ senderAlive' = senderAlive

\* Send on a channel of capacity one (sync_channel(1)): a send into a full
\* queue waits for the receiver
Send_Bounded(e, next) ==
    /\ receiverAlive => Len(queue) < 1
    /\ queue' = (IF receiverAlive THEN Append(queue, e) ELSE queue)
    /\ produced' = (IF receiverAlive THEN Append(produced, e) ELSE produced)
    /\ main' = (IF receiverAlive THEN next ELSE "Panicked")
    /\ mainErr' = (IF receiverAlive THEN mainErr
                   ELSE [what |-> "SendError", ev |-> e.kind])
    /\ senderAlive' = (IF receiverAlive THEN senderAlive ELSE FALSE)

\* self.event_sender.send(e).unwrap(), after which the callback leaves the
\* event loop in state next; send fails once the receiver is dropped, and
\* the panic unwinds main (app, holding the sender, is dropped)
Send(e, next) ==
    IF receiverAlive
    THEN /\ queue' = Append(queue, e)
         /\ produced' = Append(produced, e)
         /\ main' = next
         /\ mainErr' = mainErr
         /\ senderAlive' = senderAlive
    ELSE /\ queue' = queue
         /\ produced' = produced
         /\ main' = "Panicked"
         /\ mainErr' = [what |-> "SendError", ev |-> e.kind]
         /\ senderAlive' = FALSE

\* create_window(...).unwrap() panics
CreateWindowFails ==
    /\ main' = "Panicked"
    /\ mainErr' = [what |-> "create_window", ev |-> "none"]
    /\ senderAlive' = FALSE
    /\ UNCHANGED <<queue, produced, windows>>

\* ResumedSend with the send forgotten: the window is created and kept
ResumedSend_Forgets(w) ==
    /\ main' = "Polling"
    /\ UNCHANGED <<queue, produced, mainErr, senderAlive>>

\* The event sent on resumed, for the window just created
ResumedSend(w) == Send(WindowCreated(w), "Polling")

\* EventHandler::resumed
Resumed ==
    /\ main = "Polling"
    /\ windows < MaxResumed
    /\ \/ windows' = windows + 1 /\ ResumedSend(windows + 1)
       \/ CreateWindowFails
    /\ UNCHANGED <<receiverAlive, taskVars, redraws>>

\* EventHandler::window_event, WindowEvent::RedrawRequested
RedrawCallback ==
    /\ main = "Polling"
    /\ windows > 0
    /\ redraws < MaxRedraws
    /\ redraws' = redraws + 1
    /\ Send(RedrawRequested, "Polling")
    /\ UNCHANGED <<receiverAlive, taskVars, windows>>

\* CloseCallback with event_loop.exit() left out
CloseCallback_NoExit ==
    /\ main = "Polling"
    /\ windows > 0
    /\ Send(WindowClose, "Polling")
    /\ UNCHANGED <<receiverAlive, taskVars, windows, redraws>>

\* EventHandler::window_event, WindowEvent::CloseRequested: send, then
\* event_loop.exit(), after which the event loop dispatches no further
\* callback to the handler (the exit signal of the windowing subsystem)
CloseCallback ==
    /\ main = "Polling"
    /\ windows > 0
    /\ Send(WindowClose, "Exiting")
    /\ UNCHANGED <<receiverAlive, taskVars, windows, redraws>>

\* EventHandler::window_event, any other WindowEvent
OtherWindowEvent ==
    /\ main = "Polling"
    /\ windows > 0
    /\ UNCHANGED vars

\* run_app returns after exit(), and main returns Ok: app is dropped
EventLoopReturns ==
    /\ main = "Exiting"
    /\ main' = "Exited"
    /\ senderAlive' = FALSE
    /\ UNCHANGED <<queue, receiverAlive, taskVars, produced, mainErr,
                   windows, redraws>>

\* main: the channel is created, the task is spawned, run_app is entered
Init ==
    /\ InitTask
    /\ queue = <<>>
    /\ produced = <<>>
    /\ senderAlive = TRUE
    /\ receiverAlive = TRUE
    /\ main = "Polling"
    /\ mainErr = NoPanic
    /\ windows = 0
    /\ redraws = 0

Next ==
    \/ RunStep
    \/ TaskEnd
    \/ Resumed
    \/ RedrawCallback
    \/ CloseCallback
    \/ OtherWindowEvent
    \/ EventLoopReturns

Spec == Init /\ [][Next]_vars

FrameStepSet == {FrameSteps[i] : i \in DOMAIN FrameSteps}

\* Every value err takes
GpuErrorsAndOthers ==
    {GfxStepError(i) : i \in DOMAIN GfxSteps} \cup
    {AcquireError, "none", "unexpected event", "RecvError",
     "panic: unwrap on None"}

\* The shape of the state
TypeOK ==
    /\ queue \in Seq(Events)
    /\ consumed \in Seq(Events)
    /\ produced \in Seq(Events)
    /\ senderAlive \in BOOLEAN
    /\ receiverAlive \in BOOLEAN
    /\ window \in Nat
    /\ gfx \in [win : Nat, id : Nat]
    /\ pc \in {"Uninit", "AwaitingFirstWindow", "GfxNew", "Running", "Acquire",
               "Record", "Submit", "Present", "Closed", "Failed"}
    /\ gfxStep \in 0..Len(GfxSteps)
    /\ err \in GpuErrorsAndOthers
    /\ \A i \in DOMAIN flog :
         flog[i].ev \in DOMAIN consumed /\ flog[i].step \in FrameStepSet
    /\ gfxBuilt \in Nat
    /\ main \in {"None", "Polling", "Exiting", "Exited", "Panicked"}
    /\ mainErr.what \in {"none", "SendError", "create_window"}
    /\ windows \in Nat
    /\ redraws \in Nat
    /\ formats \in FormatLists
    /\ swapFormat \in Formats \cup {"none"}
    /\ pipeline \in Formats \cup {"none"}
    /\ \A i \in DOMAIN gfxLog : gfxLog[i] = GfxSteps[i]

-----------------------------------------------------------------------------
(* Measures of a run *)

\* Frames presented so far
Frames == Cardinality({i \in DOMAIN flog : flog[i].step = "present"})

HasClose(s) == \E i \in DOMAIN s : s[i].kind = "WindowClose"

\* RedrawRequested events of s with no WindowClose before them
RedrawsBeforeClose(s) ==
    Cardinality({i \in DOMAIN s :
                    /\ s[i].kind = "RedrawRequested"
                    /\ \A j \in 1..(i - 1) : s[j].kind # "WindowClose"})

\* The errors of the GPU steps (Gfx::new and the frame)
GpuErrors ==
    ({GfxStepError(i) : i \in DOMAIN GfxSteps} \ {"none"}) \cup {AcquireError}

IsPrefix(s, t) == Len(s) <= Len(t) /\ \A i \in DOMAIN s : s[i] = t[i]

InFrame == pc \in {"Acquire", "Record", "Submit", "Present"}

-----------------------------------------------------------------------------
(* State::run on every event sequence (SpecRun) *)

\* C1: when the first event of the sequence is RedrawRequested or
\* WindowClose, State::run, once it has received it, has failed with
\* "unexpected event": window and gfx are still None, no Gfx context was
\* built or begun, no frame step was done and no second event was consumed.
C1_UnexpectedFirstEvent ==
    ( /\ produced # <<>>
      /\ produced[1].kind \in {"RedrawRequested", "WindowClose"}
      /\ pc \notin {"Uninit", "AwaitingFirstWindow"} )
    => /\ pc = "Failed"
       /\ err = "unexpected event"
       /\ consumed = <<produced[1]>>
       /\ window = 0
       /\ gfx = NoGfx
       /\ gfxBuilt = 0
       /\ gfxStep = 0
       /\ flog = <<>>

\* A WindowClose came first and run failed with events still queued
C1_Witness ==
    /\ pc = "Failed"
    /\ err = "unexpected event"
    /\ consumed = <<WindowClose>>
    /\ Len(queue) >= 2

\* C2: for a sequence that starts with WindowCreated, run never presents more
\* frames than there are RedrawRequested events before the first WindowClose;
\* when it returns Ok it has presented exactly that many; and unless a GPU
\* step failed it fails only on a disconnected empty queue, which needs a
\* sequence with no WindowClose, every RedrawRequested of it rendered.
C2_FramesPerRedraw ==
    (produced # <<>> /\ produced[1].kind = "WindowCreated")
    => /\ Frames <= RedrawsBeforeClose(produced)
       /\ pc = "Closed" =>
            (Frames = RedrawsBeforeClose(produced) /\ err = "none")
       /\ (pc = "Failed" /\ err \notin GpuErrors) =>
            /\ err = "RecvError"
            /\ ~HasClose(produced)
            /\ Frames = RedrawsBeforeClose(produced)

\* [WindowCreated, RedrawRequested, RedrawRequested, WindowClose]: two frames
C2_Witness ==
    /\ produced = <<WindowCreated(1), RedrawRequested, RedrawRequested,
                    WindowClose>>
    /\ pc = "Closed"
    /\ err = "none"
    /\ Frames = 2

\* C4: in the loop, once a WindowClose is queued, run goes on to consume it
\* and return Ok unless acquiring a texture fails first; when it has returned
\* Ok the last event it consumed is that WindowClose, and from then on it
\* consumes nothing and renders nothing, whatever is still queued.
C4_CloseTerminates ==
    /\ (pc = "Running" /\ HasClose(queue))
          ~> (pc = "Closed" \/ err = AcquireError)
    /\ [](pc = "Closed" =>
            /\ err = "none"
            /\ consumed # <<>>
            /\ consumed[Len(consumed)] = WindowClose)
    /\ [][pc = "Closed" => UNCHANGED <<pc, err, consumed, queue, flog, gfx>>]_vars

\* run returned Ok with events still queued behind the WindowClose
C4_Witness ==
    /\ pc = "Closed"
    /\ err = "none"
    /\ queue # <<>>
    /\ Frames >= 1

-----------------------------------------------------------------------------
(* The composed program (Spec) *)

\* C3: never more than one Gfx context is built, and exactly one once run is
\* in its loop, however many WindowCreated events arrive; it is built right
\* after the first event and for the first window, every frame step belongs
\* to a RedrawRequested, and receiving a WindowCreated in the loop changes
\* neither window nor gfx nor the frames and leaves run in the loop.
C3_OneGfx ==
    /\ [](/\ gfxBuilt <= 1
          /\ (pc = "Running" \/ InFrame \/ pc = "Closed") => gfxBuilt = 1
          /\ pc = "GfxNew" => Len(consumed) = 1
          /\ gfx # NoGfx =>
               /\ gfx = [win |-> consumed[1].win, id |-> 1]
               /\ window = consumed[1].win
          /\ \A i \in DOMAIN flog :
               consumed[flog[i].ev].kind = "RedrawRequested")
    /\ [][( /\ pc = "Running"
            /\ consumed' # consumed
            /\ Head(queue).kind = "WindowCreated" )
          => UNCHANGED <<window, gfx, gfxBuilt, gfxStep, flog, pc, err>>]_vars

\* A second WindowCreated was received in the loop and ignored
C3_Witness ==
    /\ pc = "Running"
    /\ consumed = <<WindowCreated(1), WindowCreated(2)>>
    /\ window = 1
    /\ gfx = [win |-> 1, id |-> 1]
    /\ gfxBuilt = 1
    /\ flog = <<>>

\* C5: the first event ever enqueued is WindowCreated, so the first event
\* State::run receives is WindowCreated and it never fails with
\* "unexpected event".
C5_FirstIsWindowCreated ==
    /\ produced # <<>> => produced[1].kind = "WindowCreated"
    /\ consumed # <<>> => consumed[1].kind = "WindowCreated"
    /\ pc \in {"Uninit", "AwaitingFirstWindow"} => consumed = <<>>
    /\ err # "unexpected event"

\* The close was requested before State::run received anything
C5_Witness ==
    /\ pc = "AwaitingFirstWindow"
    /\ queue = <<WindowCreated(1), WindowClose>>
    /\ main = "Exiting"

\* C6: gfx is None until the first WindowCreated has been handled (received,
\* and its Gfx context built), is Some in every later state of run, and once
\* Some is never assigned again: it is the one context built for the first
\* window.  (When Gfx::new fails, run ends there with gfx still None.)
C6_GfxLifecycle ==
    /\ [](pc \in {"Uninit", "AwaitingFirstWindow", "GfxNew"} => gfx = NoGfx)
    /\ [](pc \in {"Running", "Acquire", "Record", "Submit", "Present", "Closed"}
            => /\ gfx # NoGfx
               /\ consumed # <<>>
               /\ consumed[1].kind = "WindowCreated")
    /\ [](gfx # NoGfx => gfx.id = 1 /\ gfxBuilt = 1)
    /\ [][gfx # NoGfx => gfx' = gfx]_vars
    /\ [][gfx' # gfx => (pc = "GfxNew" /\ pc' = "Running")]_vars

\* gfx is still the first context after a later WindowCreated and a frame
C6_Witness ==
    /\ gfx = [win |-> 1, id |-> 1]
    /\ Len(consumed) >= 3
    /\ \E i \in 2..Len(consumed) : consumed[i].kind = "WindowCreated"
    /\ Frames >= 1

\* C7: what State::run has received is a prefix of what the bridge has
\* enqueued, and while the receiver lives the rest is exactly the queue, in
\* order: nothing is dropped, reordered, duplicated or coalesced.
C7_Fifo ==
    /\ IsPrefix(consumed, produced)
    /\ receiverAlive => produced = consumed \o queue

\* Two RedrawRequested piled up while Gfx::new ran and were both received
C7_Witness ==
    /\ Len(consumed) >= 3
    /\ consumed[2] = RedrawRequested
    /\ consumed[3] = RedrawRequested
    /\ Frames = 2
    /\ queue # <<>>

\* RedrawRequested events among the first n received, the first event apart
RedrawsIn(c, n) == Cardinality({i \in 2..n : c[i].kind = "RedrawRequested"})

\* Steps of the frame in progress already done
StepsDone ==
    CASE pc = "Acquire" -> 0
      [] pc = "Record" -> 1
      [] pc = "Submit" -> 2
      [] pc = "Present" -> 3

\* C8: the frame steps done so far are, for each RedrawRequested received in
\* the loop and in the order received, acquire, record, submit, present; all
\* four are done whenever run is back at recv() or has returned, the frame in
\* progress belongs to the event received last, a failed acquire leaves that
\* frame with no step, no event is received while a frame is in progress, and
\* a step in which the bridge enqueues changes neither the frames nor where
\* run stands.
C8_FramePerRedraw ==
    /\ [](/\ \A j \in DOMAIN flog :
               /\ flog[j].step = FrameSteps[((j - 1) % Len(FrameSteps)) + 1]
               /\ flog[j].ev \in 2..Len(consumed)
               /\ consumed[flog[j].ev] = RedrawRequested
               /\ RedrawsIn(consumed, flog[j].ev)
                    = ((j - 1) \div Len(FrameSteps)) + 1
          /\ pc \in {"Running", "Closed"} =>
               Len(flog) = Len(FrameSteps) * RedrawsIn(consumed, Len(consumed))
          /\ InFrame =>
               /\ consumed[Len(consumed)] = RedrawRequested
               /\ Len(flog) + Len(FrameSteps)
                    = Len(FrameSteps) * RedrawsIn(consumed, Len(consumed))
                      + StepsDone
          /\ (pc = "Failed" /\ err = AcquireError) =>
               Len(flog) + Len(FrameSteps)
                 = Len(FrameSteps) * RedrawsIn(consumed, Len(consumed))
          /\ (pc = "Failed" /\ err # AcquireError) =>
               Len(flog) = Len(FrameSteps) * RedrawsIn(consumed, Len(consumed)))
    /\ [][InFrame => consumed' = consumed]_vars
    /\ [][produced' # produced => (flog' = flog /\ pc' = pc)]_vars

\* The second frame is about to be presented while an event waits
C8_Witness ==
    /\ pc = "Present"
    /\ Len(flog) = 7
    /\ queue # <<>>

C10_AcquireFailureIsFatal ==
    /\ [](err = AcquireError =>
            /\ pc = "Failed"
            /\ consumed[Len(consumed)] = RedrawRequested
            /\ \A j \in DOMAIN flog : flog[j].ev # Len(consumed)
            /\ gfx = [win |-> consumed[1].win, id |-> 1])
    /\ [][(err # AcquireError /\ err' = AcquireError) =>
            /\ pc = "Acquire"
            /\ UNCHANGED <<gfx, window, consumed, flog, queue>>]_vars
    /\ [][pc = "Failed" => UNCHANGED <<pc, err, consumed, flog, gfx>>]_vars

\* The acquire failed with a WindowClose queued, which is never received
C10_Witness ==
    /\ err = AcquireError
    /\ pc = "Failed"
    /\ receiverAlive
    /\ HasClose(queue)
    /\ Frames = 1

-----------------------------------------------------------------------------
(* Gfx::new *)

\* The errors of the steps of Gfx::new
GfxErrors == {GfxStepError(i) : i \in DOMAIN GfxSteps} \ {"none"}

\* C11 as claimed: the steps of Gfx::new are done in the order surface,
\* adapter, device, shader, pipeline layout, format, pipeline, configuration,
\* and when a step fails it is an error that State::run returns (not a
\* panic), no later step was done, gfx is None and no frame step was done.
C11_FailingStepIsReturned ==
    /\ IsPrefix(gfxLog,
                << "create_surface", "request_adapter", "request_device",
                   "create_shader_module", "create_pipeline_layout",
                   "formats[0]", "create_render_pipeline", "configure" >>)
    /\ err \in GfxErrors =>
         /\ pc = "Failed"
         /\ err = GfxStepError(gfxStep)
         /\ Len(gfxLog) + 1 = gfxStep
         /\ gfx = NoGfx
         /\ flog = <<>>
         /\ err \notin GfxPanics

\* C14: whatever list the surface reports, the format picked is in it and is
\* its first element (a function of the list alone; from a list with no
\* element none is picked, see C11); the pipeline is built with that format
\* as its colour target, which is the target of the Gfx context stored and
\* never changes.
C14_FirstFormatChosen ==
    /\ [](swapFormat # "none" => formats # <<>>)
    /\ [](formats # <<>> =>
            /\ swapFormat = formats[1]
            /\ \E i \in DOMAIN formats : formats[i] = swapFormat)
    /\ [](Len(gfxLog) < 7 => pipeline = "none")
    /\ []((formats # <<>> /\ Len(gfxLog) >= 7) => pipeline = swapFormat)
    /\ [][gfx' # gfx => (formats # <<>> /\ pipeline' = formats[1])]_vars
    /\ [][pipeline # "none" => pipeline' = pipeline]_vars

\* The pipeline was built for the first of two different formats reported
C14_Witness ==
    /\ pc = "GfxNew"
    /\ gfxStep = 8
    /\ formats = <<"Rgba8UnormSrgb", "Bgra8UnormSrgb">>
    /\ pipeline = "Rgba8UnormSrgb"

\* C15: neither unwrap of State::run panics: window is Some when Gfx::new is
\* called and while it runs, gfx is Some, built for that window, whenever a
\* frame is in progress, and a frame step is only ever done with a Gfx
\* context all of whose construction steps were done.
C15_UnwrapsNeverFail ==
    /\ err # "panic: unwrap on None"
    /\ pc = "GfxNew" => window # 0
    /\ gfxLog # <<>> => window # 0
    /\ InFrame => (gfx # NoGfx /\ gfx.win = window)
    /\ flog # <<>> => (gfx # NoGfx /\ gfxLog = GfxSteps)

\* gfx.as_ref().unwrap() has just given the context for a second frame
C15_Witness ==
    /\ pc = "Acquire"
    /\ gfx # NoGfx
    /\ gfx.win = window
    /\ Frames = 1

-----------------------------------------------------------------------------
(* The event bridge *)

\* C12: the loop is told to exit only in the step that has enqueued
\* WindowClose; a redraw-requested callback enqueues exactly one
\* RedrawRequested (nothing once the receiver is gone); the queue grows only
\* by one event at a time, sent by resumed, a redraw-requested or the
\* close-requested callback; after the exit signal nothing is enqueued, so
\* a WindowClose in the queue is the only one and its last element.
C12_CloseThenExit ==
    /\ [][(main = "Polling" /\ main' = "Exiting") =>
            (queue' = Append(queue, WindowClose) /\
             produced' = Append(produced, WindowClose))]_vars
    /\ [][redraws' # redraws =>
            queue' = (IF receiverAlive THEN Append(queue, RedrawRequested)
                      ELSE queue)]_vars
    /\ [][Len(queue') > Len(queue) =>
            (\E e \in Events \cup {WindowCreated(windows + 1)} :
               (queue' = Append(queue, e)) /\
               ((e = WindowCreated(windows + 1) /\ windows' = windows + 1) \/
                (e = RedrawRequested /\ redraws' = redraws + 1) \/
                (e = WindowClose /\ main' = "Exiting")))]_vars
    /\ [][(main \in {"Exiting", "Exited"}) =>
            (produced' = produced /\ Len(queue') =< Len(queue))]_vars
    /\ [](HasClose(produced) =>
            /\ main \in {"Exiting", "Exited"}
            /\ \A i \in DOMAIN produced :
                 produced[i] = WindowClose <=> i = Len(produced))
    /\ [](HasClose(queue) =>
            \A i \in DOMAIN queue : queue[i] = WindowClose <=> i = Len(queue))

\* The close was requested with redraws still queued before it
C12_Witness ==
    /\ main = "Exiting"
    /\ Len(queue) >= 3
    /\ queue[Len(queue)] = WindowClose
    /\ queue[Len(queue) - 1] = RedrawRequested

\* C13: whenever the event loop is dispatching, each callback that sends can
\* take its step at once, whatever is pending in the queue and wherever
\* State's task stands: the send needs nothing from the receiver.
C13_SendNeverBlocks ==
    (main = "Polling") =>
       /\ windows > 0 => ENABLED CloseCallback
       /\ (windows > 0 /\ redraws < MaxRedraws) => ENABLED RedrawCallback
       /\ windows < MaxResumed => ENABLED (Resumed /\ windows' = windows + 1)

\* Three events are pending while Gfx::new runs, and the loop still dispatches
C13_Witness ==
    /\ main = "Polling"
    /\ pc = "GfxNew"
    /\ Len(queue) >= 3
    /\ receiverAlive

\* C16: unless State::run has failed, no send of the bridge finds the queue
\* disconnected: the receiver is alive whenever the loop is dispatching, it
\* is dropped only after run has ended, and run has returned Ok only after
\* the exit signal, with WindowClose the last event sent and received and
\* nothing sent that was not received.
C16_ReceiverOutlivesSends ==
    /\ pc # "Failed" => mainErr.what # "SendError"
    /\ (pc # "Failed" /\ main = "Polling") => receiverAlive
    /\ ~receiverAlive => pc \in {"Closed", "Failed"}
    /\ pc = "Closed" =>
         /\ main \in {"Exiting", "Exited"}
         /\ consumed = produced
         /\ consumed[Len(consumed)] = WindowClose

\* A whole run: frames, close, Ok, receiver dropped, main returned
C16_Witness ==
    /\ pc = "Closed"
    /\ ~receiverAlive
    /\ main = "Exited"
    /\ mainErr = NoPanic
    /\ Frames = 2

=============================================================================
